---- MODULE Spec2Model ----
(***************************************************************************)
(* Model of the panel-selection analyzer of PersFileUsage                  *)
(* (src/src/analyze_selected_panels.py): the per-user PanelTracker state   *)
(* machine, its three event handlers and its summary.                      *)
(***************************************************************************)
EXTENDS Integers, Sequences, FiniteSets, TLC

----------------------------------------------------------------------------
\* Program constants

BASE_PANELS == {"employees", "documents", "import", "reports", "management"}

MAX_CONCURRENT_EMPLOYEE_PANELS == 5

\* the length the rankings of generate_aggregate_stats are cut to ([:10])
TOP_N == 10

\* Python's None (last_activated_employee_panel before any activation)
None == "None"

----------------------------------------------------------------------------
\* Bounds of the model

\* number of distinct employee-panel names the events are drawn from
NumEmployeePanels == 6

\* number of events fed to the tracker in the free-running specification
MaxEvents == 7

\* length of the exhaustively enumerated short inputs of the scripted runs
MaxScriptLen == 3

\* number of user ids in the lines of the analysed files
NumUsers == 2

\* number of files handed to analyze_panel_usage
NumFiles == 2

\* number of lines read over all files
MaxLines == 3

\* users in the largest list of summaries handed to generate_aggregate_stats
MaxSummaries == 11

EmpName(i) == "EMP" \o ToString(i)

EmployeePanels == {EmpName(i) : i \in 1..NumEmployeePanels}

\* base-panel names that occur in the inputs (a subset of BASE_PANELS)
InputBasePanels == {"employees", "documents"}

PanelNames == EmployeePanels \cup InputBasePanels

EventKinds == {"Activated", "Added", "Removed"}

Event(kind, panel) == [kind |-> kind, panel |-> panel]

NoEvent == Event("None", None)

----------------------------------------------------------------------------
\* Python containers

\* collections.Counter: a missing key reads as 0
CounterGet(c, k) == IF k \in DOMAIN c THEN c[k] ELSE 0

\* CounterInc as Counter[k] = 1
CounterSetOne(c, k) ==
    [x \in (DOMAIN c) \cup {k} |-> IF x = k THEN 1 ELSE c[x]]

\* Counter[k] += 1
CounterInc(c, k) ==
    [x \in (DOMAIN c) \cup {k} |-> IF x = k THEN CounterGet(c, k) + 1 ELSE c[x]]

\* sum(Counter.values())
RECURSIVE CounterSum(_)
CounterSum(c) ==
    IF DOMAIN c = {} THEN 0
    ELSE LET k == CHOOSE x \in DOMAIN c : TRUE
         IN c[k] + CounterSum([x \in (DOMAIN c) \ {k} |-> c[x]])

\* x in list
InList(x, s) == \E i \in 1..Len(s) : s[i] = x

\* the outcome of a handler that raised ValueError
ValueError == "ValueError"

\* list.remove(x): drops the first occurrence of x, raises ValueError when
\* x is not in the list
ListRemove(s, x) ==
    IF ~InList(x, s) THEN ValueError
    ELSE LET i == CHOOSE j \in 1..Len(s) :
                      s[j] = x /\ \A k \in 1..(j - 1) : s[k] # x
         IN SubSeq(s, 1, i - 1) \o SubSeq(s, i + 1, Len(s))

ListToSet(s) == {s[i] : i \in 1..Len(s)}

Max(a, b) == IF a >= b THEN a ELSE b

----------------------------------------------------------------------------
\* PanelTracker

\* PanelTracker.__init__
NewTracker ==
    [base_panel_activations |-> [b \in {} |-> 0],
     employee_panels_opened |-> {},
     current_employee_panels |-> {},
     max_concurrent_employee_panels |-> 0,
     employee_panel_switches |-> 0,
     last_activated_employee_panel |-> None,
     activation_history |-> <<>>]

\* IsSwitch without the test that the panel differs from the last activated
IsSwitchAllowingSame(t, panel) ==
    /\ t.last_activated_employee_panel # None
    /\ panel \in t.current_employee_panels
    /\ InList(panel, t.activation_history)
    /\ t.activation_history # <<>>

\* IsSwitch without the test that the panel is in the activation history
IsSwitchIgnoringHistory(t, panel) ==
    /\ t.last_activated_employee_panel # None
    /\ t.last_activated_employee_panel # panel
    /\ panel \in t.current_employee_panels

\* the switch test of process_panel_activated
IsSwitch(t, panel) ==
    /\ t.last_activated_employee_panel # None
    /\ t.last_activated_employee_panel # panel
    /\ panel \in t.current_employee_panels
    /\ InList(panel, t.activation_history)
    /\ t.activation_history # <<>>

\* ProcessPanelActivated counting the activation of every panel, base or not
ProcessPanelActivatedCountsAll(t, panel) ==
    IF panel \in BASE_PANELS
    THEN [t EXCEPT !.base_panel_activations = CounterInc(@, panel)]
    ELSE [t EXCEPT
            !.base_panel_activations = CounterInc(@, panel),
            !.employee_panel_switches = IF IsSwitch(t, panel) THEN @ + 1 ELSE @,
            !.last_activated_employee_panel = panel,
            !.activation_history =
                IF InList(panel, @) THEN @ ELSE Append(@, panel)]

\* ProcessPanelActivated moving a panel activated again to the end of the
\* activation history
ProcessPanelActivatedMovesToEnd(t, panel) ==
    IF panel \in BASE_PANELS
    THEN [t EXCEPT !.base_panel_activations = CounterInc(@, panel)]
    ELSE [t EXCEPT
            !.employee_panel_switches = IF IsSwitch(t, panel) THEN @ + 1 ELSE @,
            !.last_activated_employee_panel = panel,
            !.activation_history =
                Append(IF InList(panel, @) THEN ListRemove(@, panel) ELSE @, panel)]

\* process_panel_activated
ProcessPanelActivated(t, panel) ==
    IF panel \in BASE_PANELS
    THEN [t EXCEPT !.base_panel_activations = CounterInc(@, panel)]
    ELSE [t EXCEPT
            !.employee_panel_switches = IF IsSwitch(t, panel) THEN @ + 1 ELSE @,
            !.last_activated_employee_panel = panel,
            !.activation_history =
                IF InList(panel, @) THEN @ ELSE Append(@, panel)]

\* PanelsToRemoveChoices without the enforcement of the cap
PanelsToRemoveNone(current) == {{}}

\* PanelsToRemoveChoices taking one panel more than the excess over the cap
PanelsToRemoveOneMore(current) ==
    IF Cardinality(current) > MAX_CONCURRENT_EMPLOYEE_PANELS
    THEN {S \in SUBSET current :
            Cardinality(S) = Cardinality(current) - MAX_CONCURRENT_EMPLOYEE_PANELS + 1}
    ELSE {{}}

\* The possible values of panels_to_remove: the first
\* len(current) - MAX_CONCURRENT_EMPLOYEE_PANELS elements of list(current).
\* The enumeration order of a Python set of strings is not determined by the
\* program (string hashing is salted per process), so any subset of that
\* size can come first.
PanelsToRemoveChoices(current) ==
    IF Cardinality(current) > MAX_CONCURRENT_EMPLOYEE_PANELS
    THEN {S \in SUBSET current :
            Cardinality(S) = Cardinality(current) - MAX_CONCURRENT_EMPLOYEE_PANELS}
    ELSE {{}}

\* ProcessPanelAdded without recording the panel as ever opened
ProcessPanelAddedNotRecorded(t, panel, panels_to_remove) ==
    IF panel \in BASE_PANELS
    THEN t
    ELSE LET remaining == (t.current_employee_panels \cup {panel}) \ panels_to_remove
         IN [t EXCEPT
               !.current_employee_panels = remaining,
               !.max_concurrent_employee_panels = Max(@, Cardinality(remaining))]

\* ProcessPanelAdded taking the maximum before the eviction
ProcessPanelAddedMaxBeforeEviction(t, panel, panels_to_remove) ==
    IF panel \in BASE_PANELS
    THEN t
    ELSE LET added == t.current_employee_panels \cup {panel}
         IN [t EXCEPT
               !.employee_panels_opened = @ \cup {panel},
               !.current_employee_panels = added \ panels_to_remove,
               !.max_concurrent_employee_panels = Max(@, Cardinality(added))]

\* ProcessPanelAdded without the test for base panels
ProcessPanelAddedAnyPanel(t, panel, panels_to_remove) ==
    LET remaining == (t.current_employee_panels \cup {panel}) \ panels_to_remove
    IN [t EXCEPT
          !.employee_panels_opened = @ \cup {panel},
          !.current_employee_panels = remaining,
          !.max_concurrent_employee_panels = Max(@, Cardinality(remaining))]

\* ProcessPanelAdded recording the size of the open set instead of the
\* maximum of that size and the value recorded before
ProcessPanelAddedLastSize(t, panel, panels_to_remove) ==
    IF panel \in BASE_PANELS
    THEN t
    ELSE LET remaining == (t.current_employee_panels \cup {panel}) \ panels_to_remove
         IN [t EXCEPT
               !.employee_panels_opened = @ \cup {panel},
               !.current_employee_panels = remaining,
               !.max_concurrent_employee_panels = Cardinality(remaining)]

\* process_panel_added, given the panels the enumeration puts first
ProcessPanelAdded(t, panel, panels_to_remove) ==
    IF panel \in BASE_PANELS
    THEN t
    ELSE LET remaining == (t.current_employee_panels \cup {panel}) \ panels_to_remove
         IN [t EXCEPT
               !.employee_panels_opened = @ \cup {panel},
               !.current_employee_panels = remaining,
               !.max_concurrent_employee_panels = Max(@, Cardinality(remaining))]

\* ProcessPanelRemoved without the discard from the open set
ProcessPanelRemovedKeepsOpen(t, panel) ==
    IF panel \in BASE_PANELS
    THEN t
    ELSE [t EXCEPT
            !.last_activated_employee_panel = IF @ = panel THEN None ELSE @,
            !.activation_history =
                IF InList(panel, @) THEN ListRemove(@, panel) ELSE @]

\* ProcessPanelRemoved without the removal from the activation history
ProcessPanelRemovedKeepsHistory(t, panel) ==
    IF panel \in BASE_PANELS
    THEN t
    ELSE [t EXCEPT
            !.current_employee_panels = @ \ {panel},
            !.last_activated_employee_panel = IF @ = panel THEN None ELSE @]

\* ProcessPanelRemoved that also forgets the panel was ever opened
ProcessPanelRemovedForgetsOpened(t, panel) ==
    IF panel \in BASE_PANELS
    THEN t
    ELSE [t EXCEPT
            !.employee_panels_opened = @ \ {panel},
            !.current_employee_panels = @ \ {panel},
            !.last_activated_employee_panel = IF @ = panel THEN None ELSE @,
            !.activation_history =
                IF InList(panel, @) THEN ListRemove(@, panel) ELSE @]

\* ProcessPanelRemoved without the membership test before list.remove
ProcessPanelRemovedUnguarded(t, panel) ==
    IF panel \in BASE_PANELS
    THEN t
    ELSE [t EXCEPT
            !.current_employee_panels = @ \ {panel},
            !.last_activated_employee_panel = IF @ = panel THEN None ELSE @,
            !.activation_history = ListRemove(@, panel)]

\* ProcessPanelRemoved clearing the last activated panel whatever it is
ProcessPanelRemovedClearsLast(t, panel) ==
    IF panel \in BASE_PANELS
    THEN t
    ELSE [t EXCEPT
            !.current_employee_panels = @ \ {panel},
            !.last_activated_employee_panel = None,
            !.activation_history =
                IF InList(panel, @) THEN ListRemove(@, panel) ELSE @]

\* ProcessPanelRemoved leaving the last activated panel as it is
ProcessPanelRemovedKeepsLast(t, panel) ==
    IF panel \in BASE_PANELS
    THEN t
    ELSE [t EXCEPT
            !.current_employee_panels = @ \ {panel},
            !.activation_history =
                IF InList(panel, @) THEN ListRemove(@, panel) ELSE @]

\* process_panel_removed
ProcessPanelRemoved(t, panel) ==
    IF panel \in BASE_PANELS
    THEN t
    ELSE [t EXCEPT
            !.current_employee_panels = @ \ {panel},
            !.last_activated_employee_panel = IF @ = panel THEN None ELSE @,
            !.activation_history =
                IF InList(panel, @) THEN ListRemove(@, panel) ELSE @]

\* get_summary (without the user id)
GetSummary(t) ==
    [base_panel_activations |-> t.base_panel_activations,
     total_base_activations |-> CounterSum(t.base_panel_activations),
     unique_employee_panels_opened |-> Cardinality(t.employee_panels_opened),
     max_concurrent_employee_panels |-> t.max_concurrent_employee_panels,
     employee_panel_switches |-> t.employee_panel_switches,
     has_switched_employee_panels |-> t.employee_panel_switches > 0]

----------------------------------------------------------------------------
\* State

VARIABLES
    tracker,    \* the PanelTracker of one user
    event,      \* the event processed last (NoEvent before the first)
    pair,       \* the state before an Added(p), kept over an immediately following Removed(p)
    awaiting,   \* employee panels that had an Added and no Activated since
    first_activation,  \* the last event was the first Activated(p) after an Added(p)
    activated_since_removed,  \* employee panels that had an Activated and no Removed since
    nevents,    \* number of events processed
    seen,       \* number of employee-panel names that occurred in an event
    input,      \* scripted runs: the event sequence fed to the tracker
    pos,        \* scripted runs: number of events of input already processed
    user_trackers,  \* analyze_panel_usage: the tracker of each user seen
    user_order,     \* analyze_panel_usage: the keys of user_trackers in insertion order
    total_lines_processed,  \* analyze_panel_usage: lines read so far
    files_left,     \* analyze_panel_usage: files of log_files not yet opened
    pc,             \* analyze_panel_usage: "next_file", "in_file" or "done"
    line,           \* the line read last
    solo,           \* per user, a tracker of its own fed that user's events only
    file_events,    \* handler calls made for lines of the file being read
    events_extracted,  \* a handler was called in the run
    failed          \* how the file handled last ended ("ok", or failed at "open"
                    \* or at "read") and the handler calls made for its lines

tracker_vars == <<tracker, event, pair, awaiting, first_activation,
                  activated_since_removed, nevents, seen, input, pos>>

driver_vars == <<user_trackers, user_order, total_lines_processed, files_left, pc,
                 line, solo, file_events, events_extracted, failed>>

vars == <<tracker_vars, driver_vars>>

NoPair == [stage |-> "none", panel |-> None, open |-> {}, maxc |-> 0]

\* bookkeeping of the observer variables for one processed event
Observe(kind, panel) ==
    /\ event' = Event(kind, panel)
    /\ nevents' = nevents + 1
    /\ seen' = IF seen < NumEmployeePanels /\ panel = EmpName(seen + 1)
               THEN seen + 1 ELSE seen
    /\ pair' =
         IF kind = "Added" /\ panel \notin BASE_PANELS
         THEN [stage |-> "added", panel |-> panel,
               open |-> tracker.current_employee_panels,
               maxc |-> tracker.max_concurrent_employee_panels]
         ELSE IF kind = "Removed" /\ pair.stage = "added" /\ pair.panel = panel
         THEN [pair EXCEPT !.stage = "removed"]
         ELSE NoPair
    /\ awaiting' =
         IF panel \in BASE_PANELS THEN awaiting
         ELSE IF kind = "Added" THEN awaiting \cup {panel}
         ELSE IF kind = "Activated" THEN awaiting \ {panel}
         ELSE awaiting
    /\ first_activation' = (kind = "Activated" /\ panel \in awaiting)
    /\ activated_since_removed' =
         IF panel \in BASE_PANELS THEN activated_since_removed
         ELSE IF kind = "Activated" THEN activated_since_removed \cup {panel}
         ELSE IF kind = "Removed" THEN activated_since_removed \ {panel}
         ELSE activated_since_removed

\* one event through its handler
DoActivated(panel) ==
    /\ UNCHANGED driver_vars
    /\ tracker' = ProcessPanelActivated(tracker, panel)
    /\ Observe("Activated", panel)

DoAdded(panel) ==
    /\ UNCHANGED driver_vars
    /\ \E panels_to_remove \in
           PanelsToRemoveChoices(
               IF panel \in BASE_PANELS THEN {}
               ELSE tracker.current_employee_panels \cup {panel}) :
         tracker' = ProcessPanelAdded(tracker, panel, panels_to_remove)
    /\ Observe("Added", panel)

DoRemoved(panel) ==
    /\ UNCHANGED driver_vars
    /\ tracker' = ProcessPanelRemoved(tracker, panel)
    /\ Observe("Removed", panel)

----------------------------------------------------------------------------
\* analyze_panel_usage: lines, users and the tracker of each user

UserName(i) == "USER" \o ToString(i)

\* user ids of the form [A-Z0-9]+
UserIds == {UserName(i) : i \in 1..NumUsers}

\* a line without a [User: ...] tag
NoTag == "NoTag"

\* what can stand in the user tag of a line
LineTags == UserIds \cup {"Unknown", NoTag}

\* a line without a panel event
NoKind == "None"

\* panel names in the lines of the analysed files
LinePanels == {EmpName(1), "employees"}

Line(tag, kind, panel) == [tag |-> tag, kind |-> kind, panel |-> panel]

\* the lines a file can hold: a tag or none, and a panel event or none
Lines ==
    {Line(tag, kind, panel) : tag \in LineTags, kind \in EventKinds, panel \in LinePanels}
      \cup {Line(tag, NoKind, None) : tag \in LineTags}

NoLine == Line(NoTag, NoKind, None)

\* USER_PATTERN.search(line): the id of a tag made of [A-Z0-9]+, else no
\* match ("Unknown" has lower-case letters and does not match)
UserPatternSearch(tag) == IF tag \in UserIds THEN tag ELSE None

\* LineUser taking whatever stands in the tag
LineUserAnyTag(tag) == IF tag = NoTag THEN None ELSE tag

\* the user a line is analysed for, None when the line is skipped
LineUser(tag) ==
    LET user == UserPatternSearch(tag)
    IN IF user = None THEN None
       ELSE IF user = "Unknown" THEN None
       ELSE user

\* the handler call the panel event of a line leads to
Dispatch(t, kind, panel, panels_to_remove) ==
    IF kind = "Activated" THEN ProcessPanelActivated(t, panel)
    ELSE IF kind = "Added" THEN ProcessPanelAdded(t, panel, panels_to_remove)
    ELSE IF kind = "Removed" THEN ProcessPanelRemoved(t, panel)
    ELSE t

\* user_trackers with a new PanelTracker for a user not yet in it
WithTrackerFor(trackers, user) ==
    [u \in (DOMAIN trackers) \cup {user} |->
        IF u \in DOMAIN trackers THEN trackers[u] ELSE NewTracker]

\* AnalyzeLine with trackers that share their state: the event of one user
\* reaches the tracker of every user
AnalyzeLineShared(trackers, l, panels_to_remove) ==
    LET user == LineUser(l.tag)
    IN IF user = None THEN trackers
       ELSE [u \in (DOMAIN trackers) \cup {user} |->
               Dispatch(WithTrackerFor(trackers, user)[u], l.kind, l.panel,
                        panels_to_remove)]

\* AnalyzeLine creating a new PanelTracker at every line of a user
AnalyzeLineNewTracker(trackers, l, panels_to_remove) ==
    LET user == LineUser(l.tag)
    IN IF user = None THEN trackers
       ELSE [WithTrackerFor(trackers, user) EXCEPT
               ![user] = Dispatch(NewTracker, l.kind, l.panel, panels_to_remove)]

\* the body of the loop over the lines: user_trackers after one line
AnalyzeLine(trackers, l, panels_to_remove) ==
    LET user == LineUser(l.tag)
    IN IF user = None THEN trackers
       ELSE [WithTrackerFor(trackers, user) EXCEPT
               ![user] = Dispatch(@, l.kind, l.panel, panels_to_remove)]

\* the open set the Added of a line enlarges, {} when the line has none
AddedTo(trackers, l) ==
    LET user == LineUser(l.tag)
    IN IF user = None \/ l.kind # "Added" \/ l.panel \in BASE_PANELS THEN {}
       ELSE WithTrackerFor(trackers, user)[user].current_employee_panels
               \cup {l.panel}

\* the except clause dropping the trackers built so far
OnFileErrorReset(trackers) == [u \in {} |-> NewTracker]

\* user_trackers after the except clause of a file that failed
OnFileError(trackers) == trackers

NoFailure == [how |-> "none", events |-> 0]

\* analyze_panel_usage not running
DriverIdle ==
    /\ user_trackers = [u \in {} |-> NewTracker]
    /\ user_order = <<>>
    /\ total_lines_processed = 0
    /\ files_left = 0
    /\ pc = "done"
    /\ line = NoLine
    /\ solo = [u \in UserIds |-> NewTracker]
    /\ file_events = 0
    /\ events_extracted = FALSE
    /\ failed = NoFailure

----------------------------------------------------------------------------
\* Free-running specification: any event on any name, up to MaxEvents events

\* the state after PanelTracker(user), nothing processed yet
Fresh ==
    /\ tracker = NewTracker
    /\ event = NoEvent
    /\ pair = NoPair
    /\ awaiting = {}
    /\ first_activation = FALSE
    /\ activated_since_removed = {}
    /\ nevents = 0
    /\ seen = 0
    /\ pos = 0

Init ==
    /\ Fresh
    /\ input = <<>>
    /\ DriverIdle

\* Employee-panel names are interchangeable (the handlers only compare them),
\* so the events introduce them in the order EMP1, EMP2, ...: an event is on
\* a name already seen or on the next new one.
NamesInUse ==
    InputBasePanels \cup
    {EmpName(i) : i \in 1..(IF seen < NumEmployeePanels THEN seen + 1 ELSE seen)}

PanelActivated ==
    /\ nevents < MaxEvents
    /\ \E panel \in NamesInUse : DoActivated(panel)
    /\ UNCHANGED <<input, pos>>

PanelAdded ==
    /\ nevents < MaxEvents
    /\ \E panel \in NamesInUse : DoAdded(panel)
    /\ UNCHANGED <<input, pos>>

PanelRemoved ==
    /\ nevents < MaxEvents
    /\ \E panel \in NamesInUse : DoRemoved(panel)
    /\ UNCHANGED <<input, pos>>

Next == PanelActivated \/ PanelAdded \/ PanelRemoved

Spec == Init /\ [][Next]_vars

TypeOK ==
    /\ tracker.current_employee_panels \subseteq EmployeePanels
    /\ tracker.max_concurrent_employee_panels \in 0..NumEmployeePanels
    /\ nevents >= 0

----------------------------------------------------------------------------
\* Scripted runs: one tracker is fed a whole event sequence chosen at the
\* start, as the tests of PanelTracker do

ShortScriptNames == {EmpName(1), EmpName(2), "employees"}

ShortEvents == {Event(k, p) : k \in EventKinds, p \in ShortScriptNames}

\* every event sequence of at most MaxScriptLen events on the short names
ShortScripts == UNION {[1..n -> ShortEvents] : n \in 0..MaxScriptLen}

\* test_panel_tracker_employee_panels (EMP001, EMP002)
ScenarioEmployeePanels ==
    <<Event("Added", EmpName(1)), Event("Added", EmpName(2)),
      Event("Activated", EmpName(1)), Event("Activated", EmpName(2)),
      Event("Removed", EmpName(1))>>

\* test_panel_tracker_complex_scenario (ABC123, DEF456, GHI789, JKL012
\* renamed EMP1..EMP4)
ScenarioComplex ==
    <<Event("Added", EmpName(1)), Event("Added", EmpName(2)),
      Event("Added", EmpName(3)),
      Event("Activated", EmpName(1)), Event("Activated", EmpName(2)),
      Event("Activated", EmpName(3)), Event("Activated", EmpName(1)),
      Event("Removed", EmpName(2)),
      Event("Added", EmpName(4)), Event("Activated", EmpName(4))>>

\* test_panel_tracker_base_panels
ScenarioBasePanels ==
    <<Event("Activated", "employees"), Event("Activated", "documents"),
      Event("Activated", "employees")>>

\* one Added for each of MAX_CONCURRENT_EMPLOYEE_PANELS + 1 distinct
\* employee panels, in every order and over every choice of names
OverflowScripts ==
    LET n == MAX_CONCURRENT_EMPLOYEE_PANELS + 1
    IN {[i \in 1..n |-> Event("Added", f[i])] :
          f \in {g \in [1..n -> EmployeePanels] :
                   \A i, j \in 1..n : i # j => g[i] # g[j]}}

\* two panels activated, six panels added, the panel activated first
\* activated again
EvictionThenActivatedScript ==
    <<Event("Activated", EmpName(2)), Event("Activated", EmpName(1))>>
      \o [i \in 1..(MAX_CONCURRENT_EMPLOYEE_PANELS + 1) |-> Event("Added", EmpName(i))]
      \o <<Event("Activated", EmpName(2))>>

Scripts ==
    ShortScripts
      \cup {ScenarioEmployeePanels, ScenarioComplex, ScenarioBasePanels}
      \cup OverflowScripts
      \cup {EvictionThenActivatedScript}

InitRun ==
    /\ Fresh
    /\ input \in Scripts
    /\ DriverIdle

RunActivated ==
    /\ pos < Len(input)
    /\ input[pos + 1].kind = "Activated"
    /\ DoActivated(input[pos + 1].panel)
    /\ pos' = pos + 1
    /\ UNCHANGED input

RunAdded ==
    /\ pos < Len(input)
    /\ input[pos + 1].kind = "Added"
    /\ DoAdded(input[pos + 1].panel)
    /\ pos' = pos + 1
    /\ UNCHANGED input

RunRemoved ==
    /\ pos < Len(input)
    /\ input[pos + 1].kind = "Removed"
    /\ DoRemoved(input[pos + 1].panel)
    /\ pos' = pos + 1
    /\ UNCHANGED input

NextRun == RunActivated \/ RunAdded \/ RunRemoved

SpecRun == InitRun /\ [][NextRun]_vars

\* the scripted run has consumed its whole input
RunDone == pos = Len(input)

\* the trackers the first n events of a script can leave behind, over all
\* the panels the evictions can pick
RECURSIVE RunOutcomes(_, _)
RunOutcomes(script, n) ==
    IF n = 0 THEN {NewTracker}
    ELSE LET e == script[n]
         IN UNION {
              {Dispatch(t, e.kind, e.panel, panels_to_remove) :
                 panels_to_remove \in
                   PanelsToRemoveChoices(
                     IF e.kind = "Added" /\ e.panel \notin BASE_PANELS
                     THEN t.current_employee_panels \cup {e.panel}
                     ELSE {})} :
              t \in RunOutcomes(script, n - 1)}

----------------------------------------------------------------------------
\* analyze_panel_usage over up to NumFiles files and MaxLines lines; the
\* lines are whatever the files hold, and opening or reading a file can fail

\* the log of test_analyze_panel_usage_integration, USER1 and USER2 standing
\* for USER001 and USER002, EMP1 and EMP2 for EMP123 and EMP456
IntegrationLog ==
    <<Line(UserName(1), "Activated", "employees"),
      Line(UserName(2), "Added", EmpName(1)),
      Line(UserName(2), "Activated", EmpName(1)),
      Line(UserName(1), "Activated", "documents"),
      Line(UserName(2), "Added", EmpName(2)),
      Line(UserName(2), "Activated", EmpName(2)),
      Line(UserName(1), "Activated", "reports"),
      Line(UserName(2), "Removed", EmpName(1))>>

\* the files hold any lines (input empty), or the first file read holds the
\* integration log and the others are empty
InitAnalyze ==
    /\ Fresh
    /\ input \in {<<>>, IntegrationLog}
    /\ user_trackers = [u \in {} |-> NewTracker]
    /\ user_order = <<>>
    /\ total_lines_processed = 0
    /\ files_left \in 0..NumFiles
    /\ pc = "next_file"
    /\ line = NoLine
    /\ solo = [u \in UserIds |-> NewTracker]
    /\ file_events = 0
    /\ events_extracted = FALSE
    /\ failed = NoFailure

\* open(log_file) succeeds
OpenFile ==
    /\ pc = "next_file"
    /\ files_left > 0
    /\ files_left' = files_left - 1
    /\ pc' = "in_file"
    /\ file_events' = 0
    /\ UNCHANGED <<user_trackers, user_order, total_lines_processed, line, solo,
                   events_extracted, failed>>
    /\ UNCHANGED tracker_vars

\* open(log_file) raises: the except clause logs and goes to the next file
OpenFails ==
    /\ pc = "next_file"
    /\ files_left > 0
    /\ files_left' = files_left - 1
    /\ user_trackers' = OnFileError(user_trackers)
    /\ failed' = [how |-> "open", events |-> 0]
    /\ file_events' = 0
    /\ UNCHANGED <<user_order, total_lines_processed, pc, line, solo, events_extracted>>
    /\ UNCHANGED tracker_vars

\* the body of the loop over the lines of the open file, for the line l
ProcessLine(l) ==
    /\ line' = l
    /\ \E panels_to_remove \in PanelsToRemoveChoices(AddedTo(user_trackers, l)) :
         /\ user_trackers' = AnalyzeLine(user_trackers, l, panels_to_remove)
         /\ solo' = IF l.tag \in UserIds /\ l.kind \in EventKinds
                    THEN [solo EXCEPT ![l.tag] =
                            Dispatch(@, l.kind, l.panel, panels_to_remove)]
                    ELSE solo
    /\ user_order' =
         IF LineUser(l.tag) # None /\ LineUser(l.tag) \notin DOMAIN user_trackers
         THEN Append(user_order, LineUser(l.tag))
         ELSE user_order
    /\ LET called == LineUser(l.tag) # None /\ l.kind \in EventKinds
       IN /\ file_events' = file_events + (IF called THEN 1 ELSE 0)
          /\ events_extracted' = (events_extracted \/ called)
    /\ total_lines_processed' = total_lines_processed + 1
    /\ UNCHANGED <<files_left, pc, failed>>

\* one pass of the loop over the lines of the open file, on any line
ReadLine ==
    /\ pc = "in_file"
    /\ input = <<>>
    /\ total_lines_processed < MaxLines
    /\ \E l \in Lines : ProcessLine(l)
    /\ UNCHANGED tracker_vars

\* one pass of the loop over the lines of the open file, on the next line of
\* the given log
ReadLogLine ==
    /\ pc = "in_file"
    /\ pos < Len(input)
    /\ ProcessLine(input[pos + 1])
    /\ pos' = pos + 1
    /\ UNCHANGED <<tracker, event, pair, awaiting, first_activation,
                   activated_since_removed, nevents, seen, input>>

\* reading the next line raises: the except clause logs and goes to the next
\* file, the lines read before stay processed
ReadFails ==
    /\ pc = "in_file"
    /\ pc' = "next_file"
    /\ user_trackers' = OnFileError(user_trackers)
    /\ failed' = [how |-> "read", events |-> file_events]
    /\ file_events' = 0
    /\ UNCHANGED <<user_order, total_lines_processed, files_left, line, solo,
                   events_extracted>>
    /\ UNCHANGED tracker_vars

\* the file has no more lines
EndOfFile ==
    /\ pc = "in_file"
    /\ pos = Len(input)
    /\ pc' = "next_file"
    /\ failed' = [how |-> "ok", events |-> file_events]
    /\ file_events' = 0
    /\ UNCHANGED <<user_trackers, user_order, total_lines_processed, files_left,
                   line, solo, events_extracted>>
    /\ UNCHANGED tracker_vars

\* the loop over the files is over: summaries and statistics are built
Finish ==
    /\ pc = "next_file"
    /\ files_left = 0
    /\ pc' = "done"
    /\ UNCHANGED <<user_trackers, user_order, total_lines_processed, files_left,
                   line, solo, file_events, events_extracted, failed>>
    /\ UNCHANGED tracker_vars

NextAnalyze ==
    OpenFile \/ OpenFails \/ ReadLine \/ ReadLogLine \/ ReadFails \/ EndOfFile
      \/ Finish

SpecAnalyze == InitAnalyze /\ [][NextAnalyze]_vars

\* get_summary of the tracker of a user
UserSummary(user) == [user |-> user] @@ GetSummary(user_trackers[user])

\* user_summaries, in the order of user_trackers.values()
UserSummaries == [i \in 1..Len(user_order) |-> UserSummary(user_order[i])]

\* round(k / n * 100, 2) in hundredths of a percent (ties to even), 0 when
\* there is no user
SwitchPercentage(k, n) ==
    IF n = 0 THEN 0
    ELSE LET q == (10000 * k) \div n
             twice_rest == 2 * ((10000 * k) % n)
         IN IF twice_rest > n \/ (twice_rest = n /\ q % 2 = 1) THEN q + 1 ELSE q

\* base_panel_totals: the activations of each base panel over all summaries
RECURSIVE BasePanelTotals(_, _)
BasePanelTotals(summaries, n) ==
    IF n = 0 THEN [b \in {} |-> 0]
    ELSE LET rest == BasePanelTotals(summaries, n - 1)
             own == summaries[n].base_panel_activations
         IN [b \in (DOMAIN rest) \cup (DOMAIN own) |->
                CounterGet(rest, b) + CounterGet(own, b)]

\* ConcurrentDistribution counting the users whose maximum is k or more
ConcurrentDistributionAtLeast(summaries, k) ==
    Cardinality({i \in 1..Len(summaries) :
        summaries[i].max_concurrent_employee_panels >= k})

\* concurrent_distribution[k]: the users whose maximum is k
ConcurrentDistribution(summaries, k) ==
    Cardinality({i \in 1..Len(summaries) :
        summaries[i].max_concurrent_employee_panels = k})

\* SortedDescending placing a summary before those of the same key
RECURSIVE SortedDescendingTiesReversed(_, _, _)
SortedDescendingTiesReversed(summaries, key, n) ==
    IF n = 0 THEN <<>>
    ELSE LET rest == SortedDescendingTiesReversed(summaries, key, n - 1)
             x == summaries[n]
             k == Cardinality({i \in 1..Len(rest) : rest[i][key] > x[key]})
         IN SubSeq(rest, 1, k) \o <<x>> \o SubSeq(rest, k + 1, Len(rest))

\* sorted(user_summaries, key=lambda x: x[key], reverse=True) of the first n
\* summaries: descending by key, summaries of the same key in their
\* original order (sorted is stable, also with reverse=True); computed by
\* inserting each summary behind those with a key at least as large
RECURSIVE SortedDescending(_, _, _)
SortedDescending(summaries, key, n) ==
    IF n = 0 THEN <<>>
    ELSE LET rest == SortedDescending(summaries, key, n - 1)
             x == summaries[n]
             k == Cardinality({i \in 1..Len(rest) : rest[i][key] >= x[key]})
         IN SubSeq(rest, 1, k) \o <<x>> \o SubSeq(rest, k + 1, Len(rest))

\* sorted(...)[:10] as the list of {'user': ..., metric: ...} reported, the
\* metric under the key value
TopUsers(summaries, key) ==
    LET sorted == SortedDescending(summaries, key, Len(summaries))
        top == SubSeq(sorted, 1, IF Len(sorted) < TOP_N THEN Len(sorted) ELSE TOP_N)
    IN [i \in 1..Len(top) |-> [user |-> top[i].user, value |-> top[i][key]]]

\* generate_aggregate_stats
GenerateAggregateStats(summaries) ==
    LET totals == BasePanelTotals(summaries, Len(summaries))
        maxima == {summaries[i].max_concurrent_employee_panels :
                      i \in 1..Len(summaries)}
        top == IF maxima = {} THEN 0
               ELSE CHOOSE m \in maxima : \A k \in maxima : k <= m
        users_with_switches ==
            Cardinality({i \in 1..Len(summaries) :
                summaries[i].has_switched_employee_panels})
        Sum4[k \in 3..(IF top < 3 THEN 3 ELSE top)] ==
            IF k = 3 THEN 0 ELSE Sum4[k - 1] + ConcurrentDistribution(summaries, k)
    IN [total_activations_by_panel |-> totals,
        \* most_common(1)[0] is the first of these in insertion order
        most_popular_base_panel |->
            IF DOMAIN totals = {} THEN {None}
            ELSE {b \in DOMAIN totals : \A c \in DOMAIN totals : totals[c] <= totals[b]},
        users_by_max_concurrent |->
            [panels_0 |-> ConcurrentDistribution(summaries, 0),
             panels_1 |-> ConcurrentDistribution(summaries, 1),
             panels_2 |-> ConcurrentDistribution(summaries, 2),
             panels_3 |-> ConcurrentDistribution(summaries, 3),
             panels_4_or_more |->
                IF maxima = {} THEN 0 ELSE Sum4[IF top < 3 THEN 3 ELSE top]],
        top_users_by_base_activations |-> TopUsers(summaries, "total_base_activations"),
        top_users_by_unique_panels |->
            TopUsers(summaries, "unique_employee_panels_opened"),
        top_users_by_concurrent |->
            TopUsers(summaries, "max_concurrent_employee_panels"),
        top_switchers |-> TopUsers(summaries, "employee_panel_switches"),
        users_who_switched |-> users_with_switches,
        total_users |-> Len(summaries),
        percentage_switched |-> SwitchPercentage(users_with_switches, Len(summaries))]

\* what analyze_panel_usage returns
AnalysisResult ==
    [total_lines_processed |-> total_lines_processed,
     total_users_analyzed |-> Len(UserSummaries),
     user_summaries |-> UserSummaries,
     aggregate_stats |-> GenerateAggregateStats(UserSummaries)]

----------------------------------------------------------------------------
\* generate_aggregate_stats over the summaries of up to MaxSummaries users:
\* the loop over the files is over and every user has the tracker one of a
\* few event sequences leaves behind

\* the tracker after the first n events of a script (no script overflows the
\* cap, so nothing is evicted)
RECURSIVE TrackerAfter(_, _)
TrackerAfter(script, n) ==
    IF n = 0 THEN NewTracker
    ELSE Dispatch(TrackerAfter(script, n - 1), script[n].kind, script[n].panel, {})

\* k panels added
AddedScript(k) == [i \in 1..k |-> Event("Added", EmpName(i))]

\* two panels added and activated, then back to the first: one switch
SwitchScript ==
    <<Event("Added", EmpName(1)), Event("Activated", EmpName(1)),
      Event("Added", EmpName(2)), Event("Activated", EmpName(2)),
      Event("Activated", EmpName(1))>>

\* base panels activated, and one panel added
BaseScript ==
    <<Event("Activated", "employees"), Event("Activated", "documents"),
      Event("Activated", "employees"), Event("Added", EmpName(1))>>

\* what a user of a short list of summaries did
UserScripts ==
    {AddedScript(k) : k \in 0..MAX_CONCURRENT_EMPLOYEE_PANELS}
      \cup {SwitchScript, BaseScript, <<Event("Activated", "reports")>>}

\* what a user of a long list of summaries did
FewUserScripts == {SwitchScript, BaseScript}

RECURSIVE TotalLength(_, _)
TotalLength(scripts, n) ==
    IF n = 0 THEN 0 ELSE TotalLength(scripts, n - 1) + Len(scripts[n])

InitAggregate ==
    /\ Fresh
    /\ input = <<>>
    /\ \E n \in 0..MaxSummaries :
         \E scripts \in [1..n -> IF n <= NumUsers THEN UserScripts ELSE FewUserScripts] :
           /\ user_order = [i \in 1..n |-> UserName(i)]
           /\ user_trackers =
                [u \in {UserName(i) : i \in 1..n} |->
                    LET i == CHOOSE j \in 1..n : UserName(j) = u
                    IN TrackerAfter(scripts[i], Len(scripts[i]))]
           /\ total_lines_processed = TotalLength(scripts, n)
           /\ events_extracted = (TotalLength(scripts, n) > 0)
    /\ files_left = 0
    /\ pc = "next_file"
    /\ line = NoLine
    /\ solo = [u \in UserIds |-> NewTracker]
    /\ file_events = 0
    /\ failed = NoFailure

\* the summaries are built and generate_aggregate_stats is applied to them
NextAggregate == Finish

SpecAggregate == InitAggregate /\ [][NextAggregate]_vars

----------------------------------------------------------------------------
\* Properties

IsEmployeeEvent(e, kind) == e.kind = kind /\ e.panel \notin BASE_PANELS

Min(a, b) == IF a <= b THEN a ELSE b

\* C1: the open employee-panel set never holds more than
\* MAX_CONCURRENT_EMPLOYEE_PANELS panels, in any state between two events.
OpenPanelsWithinCap ==
    Cardinality(tracker.current_employee_panels) <= MAX_CONCURRENT_EMPLOYEE_PANELS

\* an Added of a new panel arrived while the cap was already reached
OverflowingAddedProcessed ==
    /\ pair.stage = "added"
    /\ Cardinality(pair.open) = MAX_CONCURRENT_EMPLOYEE_PANELS
    /\ pair.panel \notin pair.open
    /\ Cardinality(tracker.employee_panels_opened) > MAX_CONCURRENT_EMPLOYEE_PANELS

EmployeePanelsScenarioSummary ==
    (input = ScenarioEmployeePanels /\ RunDone) =>
        /\ GetSummary(tracker).unique_employee_panels_opened = 2
        /\ GetSummary(tracker).max_concurrent_employee_panels = 2
        /\ GetSummary(tracker).employee_panel_switches = 1
        /\ GetSummary(tracker).has_switched_employee_panels = TRUE

\* C5: after the complex scenario (three panels added and activated in turn,
\* the first re-activated, one removed, a fourth added and activated) the
\* summary reports 4 switches, 4 unique employee panels and at most 3
\* concurrent: every activation of an open panel other than the last
\* activated one counts, the first activation of a panel included.
ComplexScenarioSummary ==
    (input = ScenarioComplex /\ RunDone) =>
        /\ GetSummary(tracker).employee_panel_switches = 4
        /\ GetSummary(tracker).unique_employee_panels_opened = 4
        /\ GetSummary(tracker).max_concurrent_employee_panels = 3

\* C6 as stated: Added(p) immediately followed by Removed(p) leaves the open
\* set and max_concurrent_employee_panels as they were before the pair.
AddedRemovedRoundTrip ==
    pair.stage = "removed" =>
        /\ tracker.current_employee_panels = pair.open
        /\ tracker.max_concurrent_employee_panels = pair.maxc

\* C6 amended: after Added(p) immediately followed by Removed(p) the open set
\* is its value before the pair without p and without the panel the Added
\* evicted, if any, so it is unchanged when p was not open and fewer than the
\* cap were open; max_concurrent_employee_panels is the larger of its value
\* before and the size the open set had with p (at most the cap), so it is
\* unchanged when it was already that large.
AddedRemovedEffect ==
    pair.stage = "removed" =>
        LET withPanel == Cardinality(pair.open \cup {pair.panel})
            reached == Min(withPanel, MAX_CONCURRENT_EMPLOYEE_PANELS)
        IN /\ tracker.current_employee_panels \subseteq pair.open \ {pair.panel}
           /\ Cardinality((pair.open \ {pair.panel}) \ tracker.current_employee_panels)
                 <= withPanel - reached
           /\ (pair.panel \notin pair.open
                  /\ Cardinality(pair.open) < MAX_CONCURRENT_EMPLOYEE_PANELS)
                 => tracker.current_employee_panels = pair.open
           /\ tracker.max_concurrent_employee_panels = Max(pair.maxc, reached)
           /\ pair.maxc >= reached
                 => tracker.max_concurrent_employee_panels = pair.maxc

\* an Added(p), Removed(p) pair on a panel that was not open, with other
\* panels open, that left both values as they were
RoundTripHappened ==
    /\ pair.stage = "removed"
    /\ pair.open # {}
    /\ pair.panel \notin pair.open
    /\ tracker.current_employee_panels = pair.open
    /\ tracker.max_concurrent_employee_panels = pair.maxc

\* C7: a panel that leaves the open set, by a Removed event or by the
\* eviction of an Added event, is not in the activation order afterwards.
ClosedPanelLeavesActivationOrder ==
    [][\A p \in tracker.current_employee_panels \ tracker'.current_employee_panels :
          ~InList(p, tracker'.activation_history)]_vars

\* C8 as stated: every name in the activation order is an open employee
\* panel.
ActivationOrderWithinOpen ==
    ListToSet(tracker.activation_history) \subseteq tracker.current_employee_panels

\* C8 amended: the names in the activation order are the employee panels
\* that have been activated and had no Removed event since; such a panel
\* need not be in the open set.
ActivationOrderIsActivatedNotRemoved ==
    /\ ListToSet(tracker.activation_history) = activated_since_removed
    /\ ListToSet(tracker.activation_history) \cap BASE_PANELS = {}

\* a Removed took a panel out of the activation order and left another one
\* in it that is not open
RemovedLeavesUnopenedInOrder ==
    /\ IsEmployeeEvent(event, "Removed")
    /\ event.panel \notin activated_since_removed
    /\ \E p \in ListToSet(tracker.activation_history) :
          p \notin tracker.current_employee_panels

\* C9: the employee panels ever opened include every open employee panel.
OpenedIncludesOpen ==
    tracker.current_employee_panels \subseteq tracker.employee_panels_opened

\* some panels are open and others were opened and closed again
SomeOpenSomeClosed ==
    /\ tracker.current_employee_panels # {}
    /\ tracker.current_employee_panels # tracker.employee_panels_opened
    /\ IsEmployeeEvent(event, "Added")

\* C10: after an Added for each of six distinct employee panels and no
\* Removed, exactly 5 panels are open, max_concurrent_employee_panels is 5 and
\* 6 panels were ever opened, whichever panel the eviction picked.
SixAddedClippedToCap ==
    (input \in OverflowScripts /\ RunDone) =>
        /\ Cardinality(tracker.current_employee_panels) = 5
        /\ tracker.max_concurrent_employee_panels = 5
        /\ Cardinality(tracker.employee_panels_opened) = 6

\* the sixth Added was processed and the eviction picked the panel just added
SixthAddedEvictedItself ==
    /\ input \in OverflowScripts
    /\ RunDone
    /\ event.panel \notin tracker.current_employee_panels

\* a tracker whose fields hold values of their Python types
WellFormed(t) ==
    /\ DOMAIN t.base_panel_activations \subseteq BASE_PANELS
    /\ \A b \in DOMAIN t.base_panel_activations : t.base_panel_activations[b] \in Nat
    /\ t.employee_panels_opened \cap BASE_PANELS = {}
    /\ t.current_employee_panels \cap BASE_PANELS = {}
    /\ t.max_concurrent_employee_panels \in Nat
    /\ t.employee_panel_switches \in Nat
    /\ t.activation_history # ValueError

\* the tracker with the base-panel counts of another
WithBaseCountsOf(t, other) ==
    [t EXCEPT !.base_panel_activations = other.base_panel_activations]

\* C11: an event on a base panel leaves the employee-panel state alone:
\* Activated adds 1 to the count of that base panel and changes nothing
\* else, Added and Removed change nothing at all.
BasePanelEventsFrame ==
    [][(nevents' # nevents /\ event'.panel \in BASE_PANELS) =>
          IF event'.kind = "Activated"
          THEN /\ WithBaseCountsOf(tracker', tracker) = tracker
               /\ \A b \in BASE_PANELS :
                     CounterGet(tracker'.base_panel_activations, b) =
                        CounterGet(tracker.base_panel_activations, b)
                           + (IF b = event'.panel THEN 1 ELSE 0)
          ELSE tracker' = tracker]_vars

\* a base panel was activated a second time while employee panels were
\* open and activated
BasePanelActivatedAmongEmployeePanels ==
    /\ event.kind = "Activated"
    /\ event.panel \in BASE_PANELS
    /\ CounterGet(tracker.base_panel_activations, event.panel) >= 2
    /\ tracker.current_employee_panels # {}
    /\ tracker.last_activated_employee_panel # None

\* C12: an event on an employee panel never changes the base-panel
\* activation counts.
EmployeeEventsKeepBaseCounts ==
    [][(nevents' # nevents /\ event'.panel \notin BASE_PANELS) =>
          tracker'.base_panel_activations = tracker.base_panel_activations]_vars

\* an employee-panel event was processed after base panels were activated
EmployeeEventAfterBaseActivations ==
    /\ event.kind \in EventKinds
    /\ event.panel \notin BASE_PANELS
    /\ DOMAIN tracker.base_panel_activations # {}

\* number of Activated events on base panels among the first n of a script
BaseActivationsIn(script, n) ==
    Cardinality({i \in 1..n :
        script[i].kind = "Activated" /\ script[i].panel \in BASE_PANELS})

\* C13: after Activated(employees), Activated(documents),
\* Activated(employees) the summary reports employees: 2, documents: 1,
\* 3 base activations in total and zero unique employee panels, max
\* concurrent and switches; after any events the total of base activations
\* is the number of Activated events on base panels processed.
BasePanelsScenarioSummary ==
    /\ (input = ScenarioBasePanels /\ RunDone) =>
          /\ GetSummary(tracker).base_panel_activations =
                [b \in {"employees", "documents"} |->
                    IF b = "employees" THEN 2 ELSE 1]
          /\ GetSummary(tracker).total_base_activations = 3
          /\ GetSummary(tracker).unique_employee_panels_opened = 0
          /\ GetSummary(tracker).max_concurrent_employee_panels = 0
          /\ GetSummary(tracker).employee_panel_switches = 0
    /\ GetSummary(tracker).total_base_activations = BaseActivationsIn(input, pos)

\* the base-panel scenario ran to its end
BasePanelsScenarioDone ==
    /\ input = ScenarioBasePanels
    /\ RunDone
    /\ event = Event("Activated", "employees")

\* C17: no event takes a name out of the employee panels ever opened, so
\* their number never decreases.
EverOpenedNeverShrinks ==
    [][/\ tracker.employee_panels_opened \subseteq tracker'.employee_panels_opened
       /\ Cardinality(tracker'.employee_panels_opened)
             >= Cardinality(tracker.employee_panels_opened)]_vars

\* a Removed closed a panel that stays among the ever opened
RemovedKeepsEverOpened ==
    /\ IsEmployeeEvent(event, "Removed")
    /\ event.panel \in tracker.employee_panels_opened
    /\ event.panel \notin tracker.current_employee_panels

\* C18: every handler accepts every panel name in every state and leaves a
\* well-formed tracker without raising; Removed on a panel that is not open
\* leaves the open set as it is.
NoEventRaises ==
    /\ []WellFormed(tracker)
    /\ [][(event'.kind = "Removed" /\
             event'.panel \notin tracker.current_employee_panels) =>
              tracker'.current_employee_panels =
                  tracker.current_employee_panels]_vars

\* a Removed was processed on a panel that was never added nor activated,
\* while other panels were open
RemovedOfUnknownPanel ==
    /\ IsEmployeeEvent(event, "Removed")
    /\ event.panel \notin tracker.employee_panels_opened
    /\ ~InList(event.panel, tracker.activation_history)
    /\ tracker.current_employee_panels # {}
    /\ tracker.activation_history # <<>>

\* a step of analyze_panel_usage that read a line
LineRead == total_lines_processed' # total_lines_processed

\* a step of analyze_panel_usage in which opening or reading a file failed
FileFailed ==
    \/ files_left' # files_left /\ pc' = "next_file"
    \/ pc = "in_file" /\ pc' = "next_file" /\ failed'.how = "read"

\* C14: the events of a user change the tracker of that user only: at every
\* point of a run over interleaved lines of several users, and so at its
\* end, the summary of each user is the summary of a tracker of its own fed
\* that user's events alone.
UsersIsolated ==
    \A u \in DOMAIN user_trackers :
        GetSummary(user_trackers[u]) = GetSummary(solo[u])

\* the run ended after lines of two users with events, the last line being
\* of the user seen first
InterleavedUsersAnalysed ==
    /\ pc = "done"
    /\ Len(user_order) = 2
    /\ line.tag = user_order[1]
    /\ line.kind \in EventKinds
    /\ \A u \in DOMAIN user_trackers :
          GetSummary(user_trackers[u]) # GetSummary(NewTracker)

\* C15: a line tagged [User: Unknown] creates no tracker, calls no handler
\* and leaves the users analysed and their summaries as they are, also when
\* it carries a panel event; Unknown never has a tracker.  The number of
\* users analysed and the statistics are computed from the summaries alone
\* (AnalysisResult), so they stay as they are too.
UnknownUserSkipped ==
    [][(LineRead /\ line'.tag = "Unknown") =>
          /\ user_trackers' = user_trackers
          /\ "Unknown" \notin DOMAIN user_trackers'
          /\ file_events' = file_events
          /\ user_order' = user_order
          /\ UserSummaries' = UserSummaries]_vars

\* a line of Unknown with a panel event was read after lines of a user
UnknownLineWithEventRead ==
    /\ line.tag = "Unknown"
    /\ line.kind \in EventKinds
    /\ user_order # <<>>
    /\ events_extracted

\* C16: a line without a panel event changes no tracker, creates no tracker
\* and leaves the number of users analysed as it is.
NonEventLineIgnored ==
    [][(LineRead /\ line'.kind = NoKind) =>
          /\ user_trackers' = user_trackers
          /\ Len(UserSummaries') = Len(UserSummaries)]_vars

\* C19 as stated: when a file fails the run goes on with the next file, the
\* trackers are kept as they are, and the failed file has contributed no
\* event to any tracker.
FailedFileContributesNothing ==
    [][FileFailed =>
          /\ pc' = "next_file"
          /\ user_trackers' = user_trackers
          /\ user_order' = user_order
          /\ total_lines_processed' = total_lines_processed
          /\ failed'.events = 0]_vars

\* C19 amended: when a file fails the run goes on with the next file and
\* the trackers are kept as they are; a file that fails at open has
\* contributed no event, a file that fails while it is read has contributed
\* the events of the lines read before the failure, which stay processed.
FailedFileSkipped ==
    [][FileFailed =>
          /\ pc' = "next_file"
          /\ user_trackers' = user_trackers
          /\ user_order' = user_order
          /\ total_lines_processed' = total_lines_processed
          /\ failed'.how = "open" => failed'.events = 0
          /\ failed'.how = "read" => failed'.events = file_events]_vars

\* a file failed while it was read, after an event of it was processed, and
\* a line with an event of the next file was processed after that
NextFileReadAfterFailure ==
    /\ failed.how = "read"
    /\ failed.events > 0
    /\ pc = "in_file"
    /\ file_events > 0
    /\ user_order # <<>>

\* C20: a run that extracted no event ends with no user analysed, no
\* summary, 0 percent switched, every concurrency bucket 0 and no most
\* popular base panel; when no line was read there are 0 lines processed.
EmptyInputEmptyResult ==
    (pc = "done" /\ ~events_extracted) =>
        /\ AnalysisResult.total_users_analyzed = 0
        /\ AnalysisResult.user_summaries = <<>>
        /\ AnalysisResult.aggregate_stats.percentage_switched = 0
        /\ AnalysisResult.aggregate_stats.users_by_max_concurrent =
              [panels_0 |-> 0, panels_1 |-> 0, panels_2 |-> 0, panels_3 |-> 0,
               panels_4_or_more |-> 0]
        /\ AnalysisResult.aggregate_stats.most_popular_base_panel = {None}
        /\ line = NoLine => AnalysisResult.total_lines_processed = 0

\* C21: users_who_switched is the number of summaries with has_switched,
\* percentage_switched is 100 * users_who_switched / total_users, and the
\* run over the integration log ends with 2 users of whom exactly 1 (USER2)
\* switched, 50.0 percent.
IntegrationLogHalfSwitched ==
    (pc = "done" /\ input = IntegrationLog /\ total_lines_processed = Len(IntegrationLog)) =>
        /\ AnalysisResult.total_users_analyzed = 2
        /\ AnalysisResult.aggregate_stats.users_who_switched =
              Cardinality({i \in 1..Len(UserSummaries) :
                  UserSummaries[i].has_switched_employee_panels})
        /\ UserSummary(UserName(2)).has_switched_employee_panels
        /\ ~UserSummary(UserName(1)).has_switched_employee_panels
        /\ AnalysisResult.aggregate_stats.users_who_switched = 1
        /\ AnalysisResult.aggregate_stats.total_users = 2
        /\ AnalysisResult.aggregate_stats.percentage_switched = 5000

\* C22: max_concurrent_employee_panels is the high-water mark of the open
\* set: no event decreases it, in every state it is at least the size of the
\* open set, and it never exceeds the cap (an overflowing Added records the
\* size after the eviction).
HighWaterMark ==
    /\ [](/\ tracker.max_concurrent_employee_panels >=
                Cardinality(tracker.current_employee_panels)
          /\ tracker.max_concurrent_employee_panels <= MAX_CONCURRENT_EMPLOYEE_PANELS)
    /\ [][tracker'.max_concurrent_employee_panels >=
             tracker.max_concurrent_employee_panels]_vars

\* a panel was removed after an Added overflowed the cap: the mark stays at
\* the cap, above the size of the open set
RemovedBelowHighWaterMark ==
    /\ IsEmployeeEvent(event, "Removed")
    /\ Cardinality(tracker.employee_panels_opened) > MAX_CONCURRENT_EMPLOYEE_PANELS
    /\ tracker.max_concurrent_employee_panels = MAX_CONCURRENT_EMPLOYEE_PANELS
    /\ Cardinality(tracker.current_employee_panels) < MAX_CONCURRENT_EMPLOYEE_PANELS

\* C23: the buckets 0, 1, 2, 3 and 4 or more partition the users: each
\* bucket counts the users whose max_concurrent_employee_panels falls in it,
\* so every user is counted exactly once and the five counts add up to the
\* number of summaries.
BucketsPartitionUsers ==
    pc = "done" =>
        LET buckets == AnalysisResult.aggregate_stats.users_by_max_concurrent
            UsersWithin(lo, hi) ==
                Cardinality({i \in 1..Len(UserSummaries) :
                    /\ UserSummaries[i].max_concurrent_employee_panels >= lo
                    /\ UserSummaries[i].max_concurrent_employee_panels <= hi})
        IN /\ buckets.panels_0 = UsersWithin(0, 0)
           /\ buckets.panels_1 = UsersWithin(1, 1)
           /\ buckets.panels_2 = UsersWithin(2, 2)
           /\ buckets.panels_3 = UsersWithin(3, 3)
           /\ buckets.panels_4_or_more =
                 UsersWithin(4, MAX_CONCURRENT_EMPLOYEE_PANELS)
           /\ buckets.panels_0 + buckets.panels_1 + buckets.panels_2
                 + buckets.panels_3 + buckets.panels_4_or_more = Len(UserSummaries)

\* the statistics of two users, one with a maximum of 4 and one with a
\* maximum of 5: both fall in the last bucket
TwoUsersInLastBucket ==
    /\ pc = "done"
    /\ Len(UserSummaries) = 2
    /\ UserSummaries[1].max_concurrent_employee_panels = 4
    /\ UserSummaries[2].max_concurrent_employee_panels = 5
    /\ AnalysisResult.aggregate_stats.users_by_max_concurrent.panels_4_or_more = 2

\* a ranking lists the first TOP_N (or all, when there are fewer) users by
\* non-increasing value of the metric, each with its own value, users of
\* equal value in the order of their summaries
IsRanking(ranking, metric) ==
    LET n == Len(UserSummaries)
        Index(user) == CHOOSE i \in 1..n : UserSummaries[i].user = user
    IN /\ Len(ranking) <= TOP_N
       /\ Len(ranking) = IF n < TOP_N THEN n ELSE TOP_N
       /\ \A i \in 1..Len(ranking) :
             /\ \E k \in 1..n : UserSummaries[k].user = ranking[i].user
             /\ ranking[i].value = UserSummaries[Index(ranking[i].user)][metric]
       /\ \A i, j \in 1..Len(ranking) :
             i < j =>
               /\ ranking[i].value >= ranking[j].value
               /\ ranking[i].value = ranking[j].value =>
                     Index(ranking[i].user) < Index(ranking[j].user)

\* C24: each of the four rankings (base activations, unique employee panels
\* opened, max concurrent, switch count) lists at most 10 users in
\* non-increasing order of the metric, users of equal metric in the order
\* their summaries were first encountered.
RankingsSortedStable ==
    pc = "done" =>
        LET stats == AnalysisResult.aggregate_stats
        IN /\ IsRanking(stats.top_users_by_base_activations, "total_base_activations")
           /\ IsRanking(stats.top_users_by_unique_panels,
                        "unique_employee_panels_opened")
           /\ IsRanking(stats.top_users_by_concurrent,
                        "max_concurrent_employee_panels")
           /\ IsRanking(stats.top_switchers, "employee_panel_switches")

\* more than 10 users of whom only the last switched: the ranking of the
\* switchers starts with the last user, goes on with the others in their
\* order and leaves one of them out
LastUserLeadsTenSwitchers ==
    /\ pc = "done"
    /\ Len(UserSummaries) = TOP_N + 1
    /\ Len(AnalysisResult.aggregate_stats.top_switchers) = TOP_N
    /\ AnalysisResult.aggregate_stats.top_switchers[1] =
          [user |-> UserName(TOP_N + 1), value |-> 1]
    /\ AnalysisResult.aggregate_stats.top_switchers[2] =
          [user |-> UserName(1), value |-> 0]
    /\ AnalysisResult.aggregate_stats.top_switchers[TOP_N] =
          [user |-> UserName(TOP_N - 1), value |-> 0]

\* C25: Activated(p) on an employee panel p makes p the last activated
\* panel and leaves p in the activation order: the order is unchanged when p
\* was in it already (no reordering, no duplicate), else p is appended at
\* its end; the open set, the ever-opened set and the maximum are unchanged.
ActivatedEffect ==
    [][IsEmployeeEvent(event', "Activated") =>
          /\ tracker'.last_activated_employee_panel = event'.panel
          /\ InList(event'.panel, tracker'.activation_history)
          /\ tracker'.activation_history =
                IF InList(event'.panel, tracker.activation_history)
                THEN tracker.activation_history
                ELSE Append(tracker.activation_history, event'.panel)
          /\ tracker'.current_employee_panels = tracker.current_employee_panels
          /\ tracker'.employee_panels_opened = tracker.employee_panels_opened
          /\ tracker'.max_concurrent_employee_panels =
                tracker.max_concurrent_employee_panels]_vars

\* a panel was activated again while it stood first of several panels in
\* the activation order
FirstInOrderActivatedAgain ==
    /\ IsEmployeeEvent(event, "Activated")
    /\ Len(tracker.activation_history) >= 2
    /\ tracker.activation_history[1] = event.panel
    /\ tracker.last_activated_employee_panel = event.panel

\* C26: after Removed(p) on an employee panel p, p is neither open nor in
\* the activation order, and the last activated panel is cleared if and only
\* if it was p; the ever-opened set, the maximum, the switch count and the
\* order of the other entries of the activation order are unchanged, and a
\* second Removed(p) changes nothing further.
RemovedEffect ==
    [][IsEmployeeEvent(event', "Removed") =>
          LET p == event'.panel
              Other(x) == x # p
          IN /\ p \notin tracker'.current_employee_panels
             /\ ~InList(p, tracker'.activation_history)
             /\ tracker'.last_activated_employee_panel =
                   IF tracker.last_activated_employee_panel = p THEN None
                   ELSE tracker.last_activated_employee_panel
             /\ tracker'.employee_panels_opened = tracker.employee_panels_opened
             /\ tracker'.max_concurrent_employee_panels =
                   tracker.max_concurrent_employee_panels
             /\ tracker'.employee_panel_switches = tracker.employee_panel_switches
             /\ tracker'.activation_history =
                   SelectSeq(tracker.activation_history, Other)
             /\ ProcessPanelRemoved(tracker', p) = tracker']_vars

\* a panel that had been open was removed while another panel was the last
\* activated and two others stood in the activation order
RemovedBesideLastActivated ==
    /\ IsEmployeeEvent(event, "Removed")
    /\ event.panel \in tracker.employee_panels_opened
    /\ event.panel \notin activated_since_removed
    /\ tracker.last_activated_employee_panel # None
    /\ Len(tracker.activation_history) >= 2
    /\ tracker.employee_panel_switches > 0

\* C27: the eviction removes exactly the excess: an Added that makes the
\* open set exceed the cap leaves exactly 5 of its panels open, one being
\* evicted; an Added that does not exceed the cap evicts nothing; the
\* eviction removes no name from the ever-opened set.
EvictionRemovesExactlyExcess ==
    [][IsEmployeeEvent(event', "Added") =>
          LET added == tracker.current_employee_panels \cup {event'.panel}
          IN /\ tracker'.current_employee_panels \subseteq added
             /\ IF Cardinality(added) > MAX_CONCURRENT_EMPLOYEE_PANELS
                THEN /\ Cardinality(tracker'.current_employee_panels) =
                           MAX_CONCURRENT_EMPLOYEE_PANELS
                     /\ Cardinality(added \ tracker'.current_employee_panels) = 1
                ELSE tracker'.current_employee_panels = added
             /\ tracker'.employee_panels_opened =
                   tracker.employee_panels_opened \cup {event'.panel}]_vars

\* an Added overflowed the cap and a panel opened earlier was evicted: it
\* is closed and still counted as ever opened
EarlierPanelEvicted ==
    /\ IsEmployeeEvent(event, "Added")
    /\ pair.stage = "added"
    /\ Cardinality(pair.open \cup {event.panel}) > MAX_CONCURRENT_EMPLOYEE_PANELS
    /\ event.panel \in tracker.current_employee_panels
    /\ \E q \in pair.open :
          q \notin tracker.current_employee_panels /\ q \in tracker.employee_panels_opened

\* C28: after Added(p) on an employee panel p, p is in the open set, also
\* when the Added overflows the cap: the eviction never picks the panel
\* that was just added.
AddedPanelIsOpen ==
    IsEmployeeEvent(event, "Added") =>
        event.panel \in tracker.current_employee_panels

\* C29: the summary of a user is determined by the event sequence alone:
\* any two runs of the same event sequence, whatever panels their evictions
\* pick, end with the same unique employee panels opened, maximum, switch
\* count and has-switched.
SummaryDeterminedByEvents ==
    RunDone =>
        \A t \in RunOutcomes(input, Len(input)) :
            /\ GetSummary(t).unique_employee_panels_opened =
                  GetSummary(tracker).unique_employee_panels_opened
            /\ GetSummary(t).max_concurrent_employee_panels =
                  GetSummary(tracker).max_concurrent_employee_panels
            /\ GetSummary(t).employee_panel_switches =
                  GetSummary(tracker).employee_panel_switches
            /\ GetSummary(t).has_switched_employee_panels =
                  GetSummary(tracker).has_switched_employee_panels

\* C30: in every state of a tracker, the last activated panel, if set, is
\* an employee panel that stands in the activation order, and the
\* activation order holds no name twice and no base panel.
LastActivatedInOrder ==
    /\ tracker.last_activated_employee_panel # None =>
          /\ tracker.last_activated_employee_panel \notin BASE_PANELS
          /\ InList(tracker.last_activated_employee_panel, tracker.activation_history)
    /\ \A i, j \in 1..Len(tracker.activation_history) :
          i # j => tracker.activation_history[i] # tracker.activation_history[j]
    /\ \A i \in 1..Len(tracker.activation_history) :
          tracker.activation_history[i] \notin BASE_PANELS

\* a panel was removed while another panel, first of several in the
\* activation order, was the last activated, base panels having been
\* activated too
RemovedWhileFirstInOrderIsLast ==
    /\ IsEmployeeEvent(event, "Removed")
    /\ Len(tracker.activation_history) >= 2
    /\ tracker.last_activated_employee_panel = tracker.activation_history[1]
    /\ DOMAIN tracker.base_panel_activations # {}

====
